---- MODULE Spec2Model ----
(***************************************************************************)
(* Guitar-Hero (LooiJingHao): the state reducer (src/src/state.ts), the    *)
(* key-press handler and the RNG (src/src/util.ts) and the merged event    *)
(* loop with its render callback (src/src/main.ts).                        *)
(*                                                                         *)
(* Spec        the wired game of main(): timer ticks, user-note            *)
(*             activations, background notes and key presses folded by     *)
(*             scan, every emitted state rendered.                         *)
(* SpecReducer the reducer driven by an arbitrary sequence of Tick,        *)
(*             UpdateCircleState, key-press and GameEnd actions.           *)
(***************************************************************************)
EXTENDS Integers, Sequences, FiniteSets, TLC

VARIABLES
    state,          \* the scan accumulator: the State record of types.ts
    rngValue,       \* currentSequence.value of createTriggeredRngStream
    rngCalls,       \* number of getRandomValue() calls made so far
    emitted,        \* chart indices whose delayWhen timer has fired
    created,        \* number of SVG circle elements created so far
    canvas,         \* ids of the circle elements that are children of svg
    sound,          \* argument of the playSound call of the last action (0: none)
    thrown,         \* an exception escaped the last action
    unsubscribed,   \* source$.unsubscribe() has been called
    last,           \* the last action applied (kind, key, arg)
    bornAt,         \* bornAt[id]: state.time and chart note when element id was created
    hitIds,         \* ids of the elements removed by a Hit
    nTicks          \* number of Tick actions applied so far

vars == <<state, rngValue, rngCalls, emitted, created, canvas, sound, thrown,
          unsubscribed, last, bornAt, hitIds, nTicks>>

-----------------------------------------------------------------------------
(* Program constants *)

TICK_RATE_MS == 16
FALL_STEP == 5
EXIT_THRESHOLD == 350
HIT_LOW == 320
HIT_HIGH == 350
HIT_REWARD == 10
MISS_PENALTY == 1
NUM_LANES == 4
RNG_a == 1103515245
RNG_c == 12345
\* RNG.m is 0x80000000 = 2^31; kept as m - 1 and m / 2, which fit an int.
RNG_m_minus_1 == 2147483647
RNG_m_half == 1073741824
RNG_SEED == 42

(* Bounds of the exploration *)

MaxTime == 73        \* Tick is applied while state.time < MaxTime
MaxRngCalls == 2     \* a Miss is applied while rngCalls < MaxRngCalls
MaxLate == 1         \* a note timer fires at most MaxLate ticks after it is due
MaxCreated == 1      \* SpecReducer: circle elements created
MaxActivateTime == 0 \* SpecReducer: UpdateCircleState is applied while time <= this

Keys == {"KeyH", "KeyJ", "KeyK", "KeyL"}

-----------------------------------------------------------------------------
(* RNG: the LCG of util.ts, evaluated as JavaScript evaluates it, in IEEE   *)
(* doubles. A value below 2^62 is the pair <<hi, lo>> = hi * 2^31 + lo.     *)

Pow2(n) == 2 ^ n

\* 2^31 - x for 0 < x <= 2^31 without leaving the int range
M31Minus(x) == (RNG_m_half - x) + RNG_m_half

RECURSIVE BitLen(_)
BitLen(n) == IF n = 0 THEN 0 ELSE 1 + BitLen(n \div 2)

Limb(x, k) == (x \div Pow2(11 * k)) % 2048

\* the exact product a * seed, as <<hi, lo>>
Mul31(a, s) ==
    LET c0 == Limb(a, 0) * Limb(s, 0)
        c1 == Limb(a, 0) * Limb(s, 1) + Limb(a, 1) * Limb(s, 0)
        c2 == Limb(a, 0) * Limb(s, 2) + Limb(a, 1) * Limb(s, 1) + Limb(a, 2) * Limb(s, 0)
        c3 == Limb(a, 1) * Limb(s, 2) + Limb(a, 2) * Limb(s, 1)
        c4 == Limb(a, 2) * Limb(s, 2)
        d0 == c0 % 2048
        t1 == c1 + (c0 \div 2048)
        d1 == t1 % 2048
        t2 == c2 + (t1 \div 2048)
        d2 == t2 % 2048
        t3 == c3 + (t2 \div 2048)
        d3 == t3 % 2048
        t4 == c4 + (t3 \div 2048)
    IN  << (d2 \div 512) + d3 * 4 + t4 * 8192,
           d0 + d1 * 2048 + (d2 % 512) * 4194304 >>

\* round-to-nearest-even of <<hi, lo>> to a 53-bit significand
Round53(v) ==
    LET hi == v[1]
        lo == v[2]
        q  == BitLen(hi) - 22
    IN  IF q <= 0 THEN v
        ELSE LET r    == lo % Pow2(q)
                 half == Pow2(q - 1)
                 base == lo - r
                 up   == r > half \/ (r = half /\ (lo \div Pow2(q)) % 2 = 1)
             IN  IF ~up THEN <<hi, base>>
                 ELSE IF base = M31Minus(Pow2(q)) THEN <<hi + 1, 0>>
                 ELSE <<hi, base + Pow2(q)>>

\* <<hi, lo>> + c for 0 < c < 2^31
Add31(v, c) ==
    IF v[2] >= M31Minus(c) THEN <<v[1] + 1, v[2] - M31Minus(c)>>
    ELSE <<v[1], v[2] + c>>

\* RNG.hash: (RNG.a * seed + RNG.c) % RNG.m
hash(seed) == Round53(Add31(Round53(Mul31(RNG_a, seed)), RNG_c))[2]

\* floor(x * n / d) for 0 <= x <= d, by n additions of x modulo d
RECURSIVE MulDiv(_, _, _, _, _)
MulDiv(x, n, d, quot, rem) ==
    IF n = 0 THEN quot
    ELSE IF rem >= d - x THEN MulDiv(x, n - 1, d, quot + 1, rem - (d - x))
    ELSE MulDiv(x, n - 1, d, quot, rem + x)

\* Math.floor((RNG.scale(h) + 1) / 2 * len), RNG.scale(h) = 2h / (m - 1) - 1:
\* floor(h * len / (m - 1)); the result is len exactly when h = m - 1 (scale = 1)
randomIndexOf(h, len) == MulDiv(h, len, RNG_m_minus_1, 0, 0)

-----------------------------------------------------------------------------
(* Charts: the NoteObject arrays csvToArray can return. A NoteObject is     *)
(* referred to by its index in state.notes; start is start * 1000, the      *)
(* delay in ms that createUserPlayNote$ and createBackGroundNotes$ wait.    *)

Note(u, p, s) == [user_played |-> u, pitch |-> p, start |-> s]

Charts ==
    { <<>>,
      << Note(TRUE, 60, 0) >>,
      << Note(TRUE, 60, 0), Note(FALSE, 62, 16), Note(TRUE, 64, 48) >>,
      << Note(TRUE, 61, 16), Note(TRUE, 62, 16) >> }

-----------------------------------------------------------------------------
(* state.ts *)

initialState ==
    [gameEnd |-> FALSE, notes |-> <<>>, score |-> 0, time |-> 0,
     circles |-> <<>>, exits |-> <<>>]

\* mutant: a shorter step
AdvanceShort(yPos) == yPos + FALL_STEP - 1

\* yPos: circle.yPos + 5
Advance(yPos) == yPos + FALL_STEP

\* mutant: the exit test applied to the position before the move
StaysActiveBeforeMove(yPos) == yPos - FALL_STEP <= EXIT_THRESHOLD

\* mutant: the exit test with a strict bound
StaysActiveStrict(yPos) == yPos < EXIT_THRESHOLD

\* .filter(circle => circle.yPos <= 350)
StaysActive(yPos) == yPos <= EXIT_THRESHOLD

\* s.circles.filter(circle => circle.yPos > 350): read from the circles of s,
\* before they are moved
NewExits(s) ==
    LET Exited(c) == c.yPos > EXIT_THRESHOLD
    IN  SelectSeq(s.circles, Exited)

\* mutant: the circles kept by a Tick come out in the opposite order
TickApplyReversed(s) ==
    LET moved == [i \in 1..Len(s.circles) |->
                    [s.circles[i] EXCEPT !.yPos = Advance(s.circles[i].yPos)]]
        Kept(c) == StaysActive(c.yPos)
        updatedCircles == SelectSeq(moved, Kept)
    IN  [s EXCEPT !.circles = [i \in 1..Len(updatedCircles) |->
                                  updatedCircles[Len(updatedCircles) + 1 - i]],
                  !.exits = s.exits \o NewExits(s),
                  !.time = s.time + 1]

\* mutant: the Tick on which the last circle leaves ends the game
TickApplyEndsGame(s) ==
    LET moved == [i \in 1..Len(s.circles) |->
                    [s.circles[i] EXCEPT !.yPos = Advance(s.circles[i].yPos)]]
        Kept(c) == StaysActive(c.yPos)
        updatedCircles == SelectSeq(moved, Kept)
    IN  [s EXCEPT !.circles = updatedCircles,
                  !.exits = s.exits \o NewExits(s),
                  !.time = s.time + 1,
                  !.gameEnd = (s.circles # <<>> /\ updatedCircles = <<>>)]

\* mutant: a circle that leaves unhit costs a point
TickApplyPenalty(s) ==
    LET moved == [i \in 1..Len(s.circles) |->
                    [s.circles[i] EXCEPT !.yPos = Advance(s.circles[i].yPos)]]
        Kept(c) == StaysActive(c.yPos)
        updatedCircles == SelectSeq(moved, Kept)
    IN  [s EXCEPT !.circles = updatedCircles,
                  !.exits = s.exits \o NewExits(s),
                  !.time = s.time + 1,
                  !.score = IF Len(updatedCircles) < Len(s.circles) /\ s.score > 0
                            THEN s.score - 1 ELSE s.score]

\* Tick.apply
TickApply(s) ==
    LET moved == [i \in 1..Len(s.circles) |->
                    [s.circles[i] EXCEPT !.yPos = Advance(s.circles[i].yPos)]]
        Kept(c) == StaysActive(c.yPos)
        updatedCircles == SelectSeq(moved, Kept)
    IN  [s EXCEPT !.circles = updatedCircles,
                  !.exits = s.exits \o NewExits(s),
                  !.time = s.time + 1]

\* mutant: the new circle put in front
UpdateCircleStatePrepend(s, circleObj) ==
    [s EXCEPT !.circles = <<circleObj>> \o s.circles]

\* UpdateCircleState.apply
UpdateCircleStateApply(s, circleObj) ==
    [s EXCEPT !.circles = Append(s.circles, circleObj)]

\* mutant: ending the game also resets the clock
GameEndResetsTime(s) == [s EXCEPT !.gameEnd = TRUE, !.time = 0]

\* GameEnd.apply
GameEndApply(s) == [s EXCEPT !.gameEnd = TRUE]

-----------------------------------------------------------------------------
(* util.ts *)

\* mutant: createUserPlayNote$ without its filter
UnfilteredNote(note) == TRUE

\* filter(note => note.user_played === true) of createUserPlayNote$
UserPlayedNote(note) == note.user_played = TRUE

\* CreateCircle.determineCxPosition: position[note.pitch % 4]
determineCxPosition(note) ==
    <<"20%", "40%", "60%", "80%">>[(note.pitch % NUM_LANES) + 1]

\* CreateCircle.createCircleObj: a new SVG element (id) at cy = 0
createCircleObj(notes, i, id) ==
    [note |-> i,
     circle |-> [id |-> id, cx |-> determineCxPosition(notes[i])],
     yPos |-> 0]

\* mutant: KeyJ and KeyK exchanged
keyToPositionSwapped(keyCode) ==
    CASE keyCode = "KeyH" -> "20%"
      [] keyCode = "KeyJ" -> "60%"
      [] keyCode = "KeyK" -> "40%"
      [] keyCode = "KeyL" -> "80%"
      [] OTHER -> ""

keyToPositionMapping(keyCode) ==
    CASE keyCode = "KeyH" -> "20%"
      [] keyCode = "KeyJ" -> "40%"
      [] keyCode = "KeyK" -> "60%"
      [] keyCode = "KeyL" -> "80%"
      [] OTHER -> ""

\* circle.yPos >= 320 && circle.yPos <= 350
InHitRange(yPos) == yPos >= HIT_LOW /\ yPos <= HIT_HIGH

\* the predicate of state.circles.find in handleKeyPress
IsHitCircle(c, targetCx) == c.circle.cx = targetCx /\ InHitRange(c.yPos)

\* mutant: the last match instead of the first
FindHitLast(circles, targetCx) ==
    LET matches == {i \in 1..Len(circles) : IsHitCircle(circles[i], targetCx)}
    IN  IF matches = {} THEN 0
        ELSE CHOOSE i \in matches : \A j \in matches : i >= j

\* Array.prototype.find: the index of the first match, 0 when there is none
FindHit(circles, targetCx) ==
    LET matches == {i \in 1..Len(circles) : IsHitCircle(circles[i], targetCx)}
    IN  IF matches = {} THEN 0
        ELSE CHOOSE i \in matches : \A j \in matches : i <= j

\* mutant: the filter drops every circle of the hit circle's lane
RemoveLane(circles, h) ==
    LET Other(c) == c.circle.cx # circles[h].circle.cx
    IN  SelectSeq(circles, Other)

\* state.circles.filter(circle => circle !== hitCircle): the entries of the
\* array are distinct objects once they have been moved by a Tick, so the
\* filter drops the entry found and no other
RemoveAt(circles, h) ==
    [i \in 1..(Len(circles) - 1) |-> IF i < h THEN circles[i] ELSE circles[i + 1]]

\* const newScore = state.score + 10
HitScore(score) == score + HIT_REWARD

\* mutant: the penalty without the floor
MissScoreNoFloor(score) == score - MISS_PENALTY

\* const newScore = Math.max(0, state.score - 1)
MissScore(score) == IF score - MISS_PENALTY > 0 THEN score - MISS_PENALTY ELSE 0

\* the else branch of handleKeyPress, for a getRandomValue() that returns
\* RNG.scale(next): the note at randomIndex is played and the score lowered.
\* notes[randomIndex] is undefined for randomIndex = notes.length, and
\* playSound(undefined) throws
playRandomNote(s, cv, next) ==
    LET randomIndex == randomIndexOf(next, Len(s.notes))
        defined == randomIndex < Len(s.notes)
    IN  [state |-> IF defined
                   THEN [s EXCEPT !.score = MissScore(s.score)]
                   ELSE s,
         sound |-> IF defined THEN randomIndex + 1 ELSE 0,
         canvas |-> cv,
         thrown |-> ~defined,
         rngValue |-> next,
         usedRng |-> TRUE,
         hit |-> 0]

\* mutant: getRandomValue() called before the branch, on a hit as well
handleKeyPressEager(keyCode, s, cv, rv) ==
    LET targetCx == keyToPositionMapping(keyCode)
        h == FindHit(s.circles, targetCx)
    IN  IF h # 0
        THEN LET hitCircle == s.circles[h]
                 attached == hitCircle.circle.id \in cv
             IN  [state |-> IF attached
                            THEN [s EXCEPT !.circles = RemoveAt(s.circles, h),
                                           !.score = HitScore(s.score)]
                            ELSE s,
                  sound |-> hitCircle.note,
                  canvas |-> cv \ {hitCircle.circle.id},
                  thrown |-> ~attached,
                  rngValue |-> hash(rv),
                  usedRng |-> TRUE,
                  hit |-> h]
        ELSE playRandomNote(s, cv, hash(rv))

\* handleKeyPress(keyCode, state, svg, samples, getRandomValue), with svg the
\* set cv of attached element ids and getRandomValue the closure over rv.
\* thrown: playSound(undefined) raises a TypeError on note.instrument_name,
\* svg.removeChild raises NotFoundError for an element that is not a child.
handleKeyPress(keyCode, s, cv, rv) ==
    LET targetCx == keyToPositionMapping(keyCode)
        h == FindHit(s.circles, targetCx)
    IN  IF h # 0
        THEN LET hitCircle == s.circles[h]
                 attached == hitCircle.circle.id \in cv
             IN  [state |-> IF attached
                            THEN [s EXCEPT !.circles = RemoveAt(s.circles, h),
                                           !.score = HitScore(s.score)]
                            ELSE s,
                  sound |-> hitCircle.note,
                  canvas |-> cv \ {hitCircle.circle.id},
                  thrown |-> ~attached,
                  rngValue |-> rv,
                  usedRng |-> FALSE,
                  hit |-> h]
        ELSE playRandomNote(s, cv, hash(rv))

-----------------------------------------------------------------------------
(* main.ts *)

\* mutant: a render that attaches nothing
RenderNothing(s, cv) == cv

\* render: svg.appendChild(circle) for every circle of the state
Render(s, cv) == cv \cup {s.circles[i].circle.id : i \in 1..Len(s.circles)}

\* mutant: a timer that fires again for a note it has emitted
PendingAgain == 1..Len(state.notes)

\* the notes a stream has not emitted yet
Pending == {i \in 1..Len(state.notes) : i \notin emitted}

\* timer(note.start * 1000) against interval(TICK_RATE_MS): the number of
\* ticks due before the note's timer
DueTick(i) == state.notes[i].start \div TICK_RATE_MS

\* from(notes).pipe(filter, delayWhen(timer)): within one stream the timers
\* fire in the order of their delays, equal delays in chart order
FiresNext(i) ==
    \A j \in Pending :
        state.notes[j].user_played = state.notes[i].user_played =>
            \/ state.notes[j].start > state.notes[i].start
            \/ state.notes[j].start = state.notes[i].start /\ j >= i

\* mutant: a subscription that keeps delivering after unsubscribe()
RunningIgnoresTeardown == ~thrown

\* the subscription delivers while scan has not errored and the subscriber
\* has not called source$.unsubscribe()
Running == ~thrown /\ ~unsubscribed

Did(kind, key, arg) == [kind |-> kind, key |-> key, arg |-> arg]

Init ==
    /\ \E notesArray \in Charts : state = [initialState EXCEPT !.notes = notesArray]
    /\ rngValue = RNG_SEED
    /\ rngCalls = 0
    /\ emitted = {}
    /\ created = 0
    /\ canvas = {}
    /\ sound = 0
    /\ thrown = FALSE
    /\ unsubscribed = FALSE
    /\ last = Did("Init", "", 0)
    /\ bornAt = <<>>
    /\ hitIds = {}
    /\ nTicks = 0

\* scan + subscribe for an action that cannot throw: the new state is
\* rendered, and the subscription is torn down when it has gameEnd set
Emit(newState, cv, teardown) ==
    /\ state' = newState
    /\ canvas' = Render(newState, cv)
    /\ unsubscribed' = (teardown /\ newState.gameEnd)
    /\ thrown' = FALSE

TickStep(teardown) ==
    /\ Emit(TickApply(state), canvas, teardown)
    /\ sound' = 0
    /\ last' = Did("Tick", "", 0)
    /\ nTicks' = nTicks + 1
    /\ UNCHANGED <<rngValue, rngCalls, emitted, created, bornAt, hitIds>>

UpdateCircleStep(i, teardown) ==
    /\ created' = created + 1
    /\ bornAt' = Append(bornAt, [at |-> state.time, note |-> i])
    /\ Emit(UpdateCircleStateApply(state, createCircleObj(state.notes, i, created + 1)),
            canvas, teardown)
    /\ sound' = 0
    /\ last' = Did("UpdateCircleState", "", i)
    /\ UNCHANGED <<rngValue, rngCalls, hitIds, nTicks>>

\* scan + subscribe for the result r of a key press
PressResult(r, keyCode, teardown) ==
        /\ r.usedRng => rngCalls < MaxRngCalls
        /\ rngValue' = r.rngValue
        /\ rngCalls' = IF r.usedRng THEN rngCalls + 1 ELSE rngCalls
        /\ sound' = r.sound
        /\ last' = Did("KeyPress", keyCode, r.hit)
        /\ IF r.thrown
           THEN /\ thrown' = TRUE
                /\ canvas' = r.canvas
                /\ UNCHANGED <<state, unsubscribed>>
           ELSE Emit(r.state, r.canvas, teardown)
        /\ hitIds' = IF r.hit # 0 /\ ~r.thrown
                      THEN hitIds \cup {state.circles[r.hit].circle.id}
                      ELSE hitIds
        /\ UNCHANGED <<emitted, created, bornAt, nTicks>>

KeyPressStep(keyCode, teardown) ==
    PressResult(handleKeyPress(keyCode, state, canvas, rngValue), keyCode, teardown)

(* Spec: the merged source$ of main *)

\* tick$.pipe(map(() => state => new Tick().apply(state)))
Tick ==
    /\ Running
    /\ state.time < MaxTime
    /\ \A i \in Pending : state.time < DueTick(i) + MaxLate
    /\ TickStep(TRUE)

\* userPlayNote$
UserPlayNote(i) ==
    /\ Running
    /\ i \in Pending
    /\ UserPlayedNote(state.notes[i])
    /\ FiresNext(i)
    /\ state.time >= DueTick(i)
    /\ emitted' = emitted \cup {i}
    /\ UpdateCircleStep(i, TRUE)

\* notUserPlayNote$: playSound(note, samples), then state => state
BackGroundNote(i) ==
    /\ Running
    /\ i \in Pending
    /\ ~state.notes[i].user_played
    /\ FiresNext(i)
    /\ state.time >= DueTick(i)
    /\ emitted' = emitted \cup {i}
    /\ Emit(state, canvas, TRUE)
    /\ sound' = i
    /\ last' = Did("BackGroundNote", "", i)
    /\ UNCHANGED <<rngValue, rngCalls, created, bornAt, hitIds, nTicks>>

\* keyPress$
KeyPress(keyCode) ==
    /\ Running
    /\ KeyPressStep(keyCode, TRUE)

Next ==
    \/ Tick
    \/ \E i \in 1..Len(state.notes) : UserPlayNote(i)
    \/ \E i \in 1..Len(state.notes) : BackGroundNote(i)
    \/ \E keyCode \in Keys : KeyPress(keyCode)

Spec == Init /\ [][Next]_vars

(* SpecHost: the merged source$ of main with one more producer of actions,   *)
(* GameEnd.apply, which main imports and merges into no stream; it is the   *)
(* only code that sets gameEnd, so the subscriber's gameEnd branch is       *)
(* exercised by it alone                                                    *)

\* state => new GameEnd().apply(state), through scan and the subscriber
GameEnd ==
    /\ Running
    /\ Emit(GameEndApply(state), canvas, TRUE)
    /\ sound' = 0
    /\ last' = Did("GameEnd", "", 0)
    /\ UNCHANGED <<rngValue, rngCalls, emitted, created, bornAt, hitIds, nTicks>>

NextHost ==
    \/ Tick
    \/ \E i \in 1..Len(state.notes) : UserPlayNote(i)
    \/ \E i \in 1..Len(state.notes) : BackGroundNote(i)
    \/ \E keyCode \in Keys : KeyPress(keyCode)
    \/ GameEnd

SpecHost == Init /\ [][NextHost]_vars

(* SpecReducer: the state updates of the code (Tick, UpdateCircleState for   *)
(* a user-played note, the background no-op, handleKeyPress, GameEnd)       *)
(* applied in any order, every state rendered, no teardown                  *)

ReduceTick ==
    /\ ~thrown
    /\ state.time < MaxTime
    /\ TickStep(FALSE)
    /\ UNCHANGED emitted

ReduceUpdateCircle(i) ==
    /\ ~thrown
    /\ state.notes[i].user_played
    /\ created < MaxCreated
    /\ state.time <= MaxActivateTime
    /\ UpdateCircleStep(i, FALSE)
    /\ UNCHANGED emitted

\* playSound(note, samples); (state: State) => state
ReduceBackGround(i) ==
    /\ ~thrown
    /\ ~state.notes[i].user_played
    /\ Emit(state, canvas, FALSE)
    /\ sound' = i
    /\ last' = Did("BackGroundNote", "", i)
    /\ UNCHANGED <<rngValue, rngCalls, emitted, created, bornAt, hitIds, nTicks>>

ReduceKeyPress(keyCode) ==
    /\ ~thrown
    /\ KeyPressStep(keyCode, FALSE)

ReduceGameEnd ==
    /\ ~thrown
    /\ ~state.gameEnd
    /\ Emit(GameEndApply(state), canvas, FALSE)
    /\ sound' = 0
    /\ last' = Did("GameEnd", "", 0)
    /\ UNCHANGED <<rngValue, rngCalls, emitted, created, bornAt, hitIds, nTicks>>

NextReducer ==
    \/ ReduceTick
    \/ \E i \in 1..Len(state.notes) : ReduceUpdateCircle(i)
    \/ \E i \in 1..Len(state.notes) : ReduceBackGround(i)
    \/ \E keyCode \in Keys : ReduceKeyPress(keyCode)
    \/ ReduceGameEnd

SpecReducer == Init /\ [][NextReducer]_vars

(* SpecIndex: handleKeyPress called with a getRandomValue that returns       *)
(* RNG.scale(h) for a hash value h of 0..m - 1, on the states without        *)
(* circles, where every key press takes the else branch                      *)

\* hash values 0..m - 1: both ends, the values around the thirds and the
\* half of the range, and RNG.hash(42)
HashSamples ==
    {0, 1, 715827882, 715827883, 1073741823, 1073741824, 1250496027,
     1431655764, 1431655765, 2147483646, 2147483647}

PressWith(keyCode, h) ==
    /\ ~thrown
    /\ FindHit(state.circles, keyToPositionMapping(keyCode)) = 0
    /\ PressResult(playRandomNote(state, canvas, h), keyCode, FALSE)

NextIndex == \E keyCode \in Keys : \E h \in HashSamples : PressWith(keyCode, h)

SpecIndex == Init /\ [][NextIndex]_vars

-----------------------------------------------------------------------------
(* Vocabulary of the properties *)

\* the element ids of a list of circles
Ids(circles) == {circles[i].circle.id : i \in 1..Len(circles)}

\* lane of a key: KeyH, KeyJ, KeyK, KeyL are lanes 0, 1, 2, 3
LaneOfKey(keyCode) ==
    CASE keyCode = "KeyH" -> 0
      [] keyCode = "KeyJ" -> 1
      [] keyCode = "KeyK" -> 2
      [] keyCode = "KeyL" -> 3

\* lane of an active note: the pitch of its descriptor modulo 4
LaneOfCircle(c) == state.notes[c.note].pitch % 4

\* ticks applied since the circle was created
Age(c) == state.time - bornAt[c.circle.id].at

\* the active notes of the lane of keyCode that are inside the hit window
InWindowOf(keyCode) ==
    {i \in 1..Len(state.circles) :
        /\ LaneOfCircle(state.circles[i]) = LaneOfKey(keyCode)
        /\ state.circles[i].yPos >= 320
        /\ state.circles[i].yPos <= 350}

\* the chart notes (indices) of a list of circles
NotesOf(circles) == {circles[i].note : i \in 1..Len(circles)}

\* how many entries of a list of circles belong to chart note n
Occurrences(circles, n) == Cardinality({i \in 1..Len(circles) : circles[i].note = n})

\* the place of the circle with element id in a list of circles
PlaceOf(circles, id) == CHOOSE i \in 1..Len(circles) : circles[i].circle.id = id

\* a list of circles in the order of non-increasing yPos, every yPos a
\* multiple of 5
Ordered(circles) ==
    /\ \A i, j \in 1..Len(circles) : i < j => circles[i].yPos >= circles[j].yPos
    /\ \A i \in 1..Len(circles) : circles[i].yPos % 5 = 0

\* the value of the sequence lazyRNG(RNG_SEED) after n calls of next()
RECURSIVE SequenceValue(_)
SequenceValue(n) == IF n = 0 THEN RNG_SEED ELSE hash(SequenceValue(n - 1))

Min(S) == CHOOSE x \in S : \A y \in S : x <= y

TickTaken == last'.kind = "Tick"
PressTaken == last'.kind = "KeyPress"

-----------------------------------------------------------------------------
(* C1. Exit partition: after any Tick, every note whose advanced position   *)
(* (old yPos + 5) is greater than 350 is in exits and not in circles, and   *)
(* every note whose advanced position is at most 350 is in circles and not  *)
(* in exits. Violated: Tick.apply selects the new exits from the positions  *)
(* before the move, which are all <= 350, so a note that crosses 350 is     *)
(* dropped from circles and never reaches exits.                            *)
C1_ExitPartition ==
    [][TickTaken =>
        \A i \in 1..Len(state.circles) :
            LET c == state.circles[i]
            IN  IF c.yPos + 5 > 350
                THEN /\ c.circle.id \in Ids(state'.exits)
                     /\ c.circle.id \notin Ids(state'.circles)
                ELSE /\ c.circle.id \in Ids(state'.circles)
                     /\ c.circle.id \notin Ids(state'.exits)]_vars

(* C2. With an empty chart every key press completes without an error,      *)
(* leaves score = 0 and triggers no sound. Violated: the random fallback    *)
(* reads notes[0] of the empty array and playSound dereferences undefined.  *)
C2_EmptyChartPressIsNoOp ==
    (Len(state.notes) = 0 /\ last.kind = "KeyPress") =>
        (~thrown /\ state.score = 0 /\ sound = 0)

(* C3. Score floor: in every state reachable by Tick, UpdateCircleState,    *)
(* key press and GameEnd actions, score is an integer >= 0.                 *)
C3_ScoreFloor == state.score \in Nat

\* a Miss applied at score 0, after the game was ended, left the score at 0
C3_Witness ==
    /\ last.kind = "KeyPress"
    /\ last.arg = 0
    /\ ~thrown
    /\ state.gameEnd
    /\ state.time > 0
    /\ state.score = 0

(* C4. Hit exclusivity: when a key press is a Hit, the new circles are the   *)
(* old circles with exactly the hit note removed (every other note kept     *)
(* with its position, in the same order), the score is the old score plus   *)
(* exactly 10, and the hit note is not added to exits.                      *)
C4_HitExclusivity ==
    [][(PressTaken /\ last'.arg # 0) =>
        LET h == last'.arg
        IN  /\ ~thrown'
            /\ Len(state'.circles) = Len(state.circles) - 1
            /\ \A i \in 1..Len(state'.circles) :
                   state'.circles[i] = state.circles[IF i < h THEN i ELSE i + 1]
            /\ state'.score = state.score + 10
            /\ state'.exits = state.exits]_vars

\* a Hit was applied and another note of the same lane is still active
C4_Witness ==
    /\ last.kind = "KeyPress"
    /\ last.arg # 0
    /\ state.score = 10
    /\ \E i \in 1..Len(state.circles) :
           LaneOfCircle(state.circles[i]) = LaneOfKey(last.key)

(* C5. Miss penalty: for every state and every lane key, a key press for    *)
(* which no active note of that lane has its position in 320..350 yields a  *)
(* successor state with score = max(0, old score - 1) and with circles and  *)
(* exits as before. Violated on the empty chart, where the press throws     *)
(* (C2) and yields no successor state.                                      *)
C5_MissPenalty ==
    [][\A keyCode \in Keys :
        (PressTaken /\ last'.key = keyCode /\ InWindowOf(keyCode) = {}) =>
            /\ ~thrown'
            /\ state'.score = (IF state.score - 1 > 0 THEN state.score - 1 ELSE 0)
            /\ state'.circles = state.circles
            /\ state'.exits = state.exits]_vars

(* C6. Hit selection: a key press on lane L is a Hit if and only if some    *)
(* active note has lane L and a position p with 320 <= p <= 350; the note   *)
(* resolved is the first such note of the circles list, and the other notes *)
(* of that lane inside the window stay in circles.                          *)
C6_HitSelection ==
    [][\A keyCode \in Keys :
        (PressTaken /\ last'.key = keyCode) =>
            LET M == InWindowOf(keyCode)
            IN  IF M # {}
                THEN /\ Ids(state'.circles) =
                            Ids(state.circles) \ {state.circles[Min(M)].circle.id}
                     /\ state'.score = state.score + 10
                     /\ sound' = state.circles[Min(M)].note
                ELSE /\ state'.circles = state.circles
                     /\ state'.score <= state.score]_vars

\* a Hit was applied and a later note of the same lane is still active
\* inside the hit window
C6_Witness ==
    /\ last.kind = "KeyPress"
    /\ last.arg # 0
    /\ \E i \in 1..Len(state.circles) :
           /\ LaneOfCircle(state.circles[i]) = LaneOfKey(last.key)
           /\ state.circles[i].yPos >= 320
           /\ state.circles[i].yPos <= 350

(* C7. Hit timing: a note created at position 0 and advanced by k Ticks has *)
(* position 5 * k while it is active; a press of a lane is a Hit exactly    *)
(* when a note of that lane that has not been hit yet has 64 <= k <= 70 (no *)
(* note is hit for k < 64 or k >= 71), and on a one-note chart the press    *)
(* after exactly 64 Ticks gives score 10 and an empty circles list.         *)
C7_HitTiming ==
    [][/\ \A i \in 1..Len(state'.circles) :
              state'.circles[i].yPos =
                  5 * (state'.time - bornAt'[state'.circles[i].circle.id].at)
       /\ \A keyCode \in Keys :
              (PressTaken /\ last'.key = keyCode) =>
                  LET ripe == {id \in 1..created :
                                  /\ id \notin hitIds
                                  /\ state.notes[bornAt[id].note].pitch % 4 = LaneOfKey(keyCode)
                                  /\ state.time - bornAt[id].at >= 64
                                  /\ state.time - bornAt[id].at <= 70}
                  IN  /\ (hitIds' # hitIds) = (ripe # {})
                      /\ (hitIds' # hitIds) = (state'.score = state.score + 10)
                      /\ hitIds' \ hitIds \subseteq ripe
                      /\ Ids(state'.circles) = Ids(state.circles) \ (hitIds' \ hitIds)
                      /\ (Len(state.notes) = 1 /\ ripe # {}) => state'.circles = <<>>
                      /\ (Len(state.notes) = 1 /\ ripe # {} /\ state.score = 0) =>
                             state'.score = 10]_vars

\* one-note chart: the note was created at time 0 and hit after exactly 64 Ticks
C7_Witness ==
    /\ Len(state.notes) = 1
    /\ created = 1
    /\ bornAt[1].at = 0
    /\ state.time = 64
    /\ nTicks = 64
    /\ last.kind = "KeyPress"
    /\ last.arg # 0
    /\ state.score = 10
    /\ state.circles = <<>>

(* C8. Lane binding: a note's lane is its pitch mod 4, lanes 0..3 bound to  *)
(* KeyH, KeyJ, KeyK, KeyL; a press of one of the other three keys never     *)
(* removes the note from circles nor changes its position, so a key press   *)
(* removes a note only on the key of the note's own lane.                   *)
C8_LaneBinding ==
    [][\A keyCode \in Keys :
        (PressTaken /\ last'.key = keyCode) =>
            /\ \A i \in 1..Len(state.circles) :
                   LaneOfCircle(state.circles[i]) # LaneOfKey(keyCode) =>
                       \E j \in 1..Len(state'.circles) :
                           state'.circles[j] = state.circles[i]
            /\ \A i \in 1..Len(state.circles) :
                   state.circles[i].circle.id \notin Ids(state'.circles) =>
                       LaneOfCircle(state.circles[i]) = LaneOfKey(keyCode)]_vars

\* a key of another lane was pressed while a note was inside the hit window,
\* and the note is still there
C8_Witness ==
    /\ last.kind = "KeyPress"
    /\ last.arg = 0
    /\ ~thrown
    /\ \E i \in 1..Len(state.circles) :
           /\ LaneOfCircle(state.circles[i]) # LaneOfKey(last.key)
           /\ state.circles[i].yPos >= 320
           /\ state.circles[i].yPos <= 350

(* C10. Monotonic ticks: every Tick increases time by exactly 1 and no      *)
(* other action (UpdateCircleState, key press hit or miss, GameEnd,         *)
(* background note) changes it, so time equals the number of Ticks applied  *)
(* and never decreases.                                                     *)
C10_MonotonicTicks == state.time = nTicks

\* the game was ended, Ticks went on, and a note was hit afterwards
C10_Witness ==
    /\ state.gameEnd
    /\ nTicks >= 64
    /\ last.kind = "KeyPress"
    /\ last.arg # 0
    /\ \E i \in 1..Len(state.notes) : ~state.notes[i].user_played

(* C11. Position bound: in every reachable state every note in circles has *)
(* a position yPos with 0 <= yPos <= 350.                                   *)
C11_PositionBound ==
    \A i \in 1..Len(state.circles) :
        state.circles[i].yPos >= 0 /\ state.circles[i].yPos <= 350

\* a note stands on the bound 350 while a younger note is active too
C11_Witness ==
    /\ last.kind = "Tick"
    /\ Len(state.circles) = 2
    /\ state.circles[1].yPos = 350
    /\ state.circles[2].yPos < 350

(* C12. No duplicates, no resurrection: in the wired game each chart        *)
(* descriptor occurs at most once in circles and exits taken together, each *)
(* user-played descriptor is activated at most once, and a descriptor that  *)
(* has left circles (by a hit or by exiting) never appears in circles again. *)
C12_NoDuplicatesNoResurrection ==
    [][\A n \in 1..Len(state.notes) :
        /\ Occurrences(state'.circles, n) + Occurrences(state'.exits, n) <= 1
        /\ Cardinality({id \in 1..created' : bornAt'[id].note = n}) <= 1
        /\ ((\E id \in 1..created : bornAt[id].note = n) /\ n \notin NotesOf(state.circles))
               => n \notin NotesOf(state'.circles)]_vars

\* of two activated descriptors one was hit and the other left by exiting
C12_Witness ==
    /\ created = 2
    /\ emitted = {i \in 1..Len(state.notes) : state.notes[i].user_played}
    /\ 2 \in hitIds
    /\ 1 \notin hitIds
    /\ state.time - bornAt[1].at >= 71
    /\ state.circles = <<>>

(* C13. In the wired game every note in circles has a descriptor with       *)
(* user_played = true; a chart note with user_played = false never enters   *)
(* circles or exits, and its scheduled update leaves the whole state         *)
(* unchanged.                                                               *)
C13_OnlyUserPlayedActive ==
    [][/\ \A n \in NotesOf(state'.circles) \cup NotesOf(state'.exits) :
              state'.notes[n].user_played
       /\ last'.kind = "BackGroundNote" => state' = state]_vars

\* the background note fired while a user-played note was active
C13_Witness ==
    /\ last.kind = "BackGroundNote"
    /\ ~state.notes[last.arg].user_played
    /\ Len(state.circles) >= 1
    /\ state.time > 0

(* C14. GameEnd sets gameEnd to true and leaves notes, score, time, circles  *)
(* and exits unchanged; a Tick, an UpdateCircleState or a key press applied  *)
(* to a state with gameEnd = true still returns a successor state, and no    *)
(* action sets gameEnd back to false. Violated on the empty chart, where a   *)
(* key press on an ended state throws (C2) and returns no state.             *)
C14_EndGameTotal ==
    [][/\ last'.kind = "GameEnd" => state' = [state EXCEPT !.gameEnd = TRUE]
       /\ state.gameEnd => state'.gameEnd
       /\ (state.gameEnd /\ last'.kind \in {"Tick", "UpdateCircleState", "KeyPress"})
              => ~thrown']_vars

(* C15. Teardown on end: as soon as a state with gameEnd = true has been     *)
(* rendered the subscription is unsubscribed, and from then on no Tick, no   *)
(* note activation and no key press is applied: the state rendered with      *)
(* gameEnd = true stays the state for ever.                                  *)
C15_TeardownOnEnd ==
    [][/\ state'.gameEnd => unsubscribed'
       /\ state.gameEnd => (state' = state /\ canvas' = canvas /\ sound' = sound)]_vars

\* the game was ended while a circle was falling and a note of the chart was
\* still to come
C15_Witness ==
    /\ state.gameEnd
    /\ unsubscribed
    /\ last.kind = "GameEnd"
    /\ Len(state.circles) >= 1
    /\ Pending # {}

(* C16. Note lifetime, counted in Ticks applied since the note's circle was  *)
(* created at yPos 0: a circle is in circles for at most 70 Ticks, it is no  *)
(* longer in circles once 71 Ticks have been applied, and a circle that was  *)
(* hit is not in circles either.                                             *)
C16_NoteLifetime ==
    \A id \in 1..created :
        /\ id \in Ids(state.circles) =>
               (state.time - bornAt[id].at <= 70 /\ id \notin hitIds)
        /\ state.time - bornAt[id].at >= 71 => id \notin Ids(state.circles)

\* the 71st Tick after its creation removed a circle that was never hit,
\* while a younger circle is still falling
C16_Witness ==
    /\ last.kind = "Tick"
    /\ created >= 2
    /\ 1 \notin hitIds
    /\ state.time - bornAt[1].at = 71
    /\ 1 \notin Ids(state.circles)
    /\ 2 \in Ids(state.circles)

(* C17. Random fallback index: on a key press without a hit on a chart of    *)
(* n > 0 notes, for every value r = RNG.scale(h), h in 0..2^31 - 1, the      *)
(* index floor((r + 1) / 2 * n) is in 0..n - 1 and the press plays the       *)
(* chart note at that index. Violated at h = 2^31 - 1 (r = 1): the index is  *)
(* n, notes[n] is undefined and playSound throws.                            *)
C17_IndexInRange ==
    (last.kind = "KeyPress" /\ last.arg = 0 /\ Len(state.notes) > 0) =>
        /\ randomIndexOf(rngValue, Len(state.notes)) \in 0..(Len(state.notes) - 1)
        /\ ~thrown
        /\ sound = randomIndexOf(rngValue, Len(state.notes)) + 1

(* C18. Tick frame: a Tick adds exactly 5 to the yPos of every circle that   *)
(* remains in circles and adds no circle, keeps the remaining circles in     *)
(* their order, keeps the old exits as a prefix of the new exits, and leaves *)
(* score, notes and gameEnd unchanged, also when a circle leaves unhit.      *)
C18_TickFrame ==
    [][TickTaken =>
        /\ \A i \in 1..Len(state'.circles) :
               LET c == state'.circles[i]
               IN  /\ c.circle.id \in Ids(state.circles)
                   /\ c = [state.circles[PlaceOf(state.circles, c.circle.id)]
                               EXCEPT !.yPos = @ + 5]
        /\ \A i, j \in 1..Len(state'.circles) :
               i < j => PlaceOf(state.circles, state'.circles[i].circle.id)
                            < PlaceOf(state.circles, state'.circles[j].circle.id)
        /\ Len(state'.exits) >= Len(state.exits)
        /\ SubSeq(state'.exits, 1, Len(state.exits)) = state.exits
        /\ state'.score = state.score
        /\ state'.notes = state.notes
        /\ state'.gameEnd = state.gameEnd]_vars

\* a Tick on which the first circle left without having been hit, after a
\* key press, while the second one moved on
C18_Witness ==
    /\ last.kind = "Tick"
    /\ created = 2
    /\ hitIds = {}
    /\ rngCalls >= 1
    /\ state.time - bornAt[1].at = 71
    /\ Len(state.circles) = 1
    /\ state.circles[1].circle.id = 2
    /\ state.circles[1].yPos = 5 * (state.time - bornAt[2].at)

(* C19. UpdateCircleState frame: the action appends exactly one new circle   *)
(* at yPos 0 at the end of circles, keeps every circle already there with    *)
(* its yPos and its place, and leaves score, time, exits, notes and gameEnd  *)
(* unchanged.                                                                *)
C19_ActivateFrame ==
    [][last'.kind = "UpdateCircleState" =>
        /\ Len(state'.circles) = Len(state.circles) + 1
        /\ SubSeq(state'.circles, 1, Len(state.circles)) = state.circles
        /\ LET c == state'.circles[Len(state'.circles)]
           IN  /\ c.yPos = 0
               /\ c.note = last'.arg
               /\ c.circle.id \notin Ids(state.circles)
        /\ state'.score = state.score
        /\ state'.time = state.time
        /\ state'.exits = state.exits
        /\ state'.notes = state.notes
        /\ state'.gameEnd = state.gameEnd]_vars

\* a circle was created behind one that is already falling
C19_Witness ==
    /\ last.kind = "UpdateCircleState"
    /\ Len(state.circles) = 2
    /\ state.circles[1].yPos > 0
    /\ state.circles[2].yPos = 0
    /\ state.circles[2].note = last.arg

C21_OrderedActive ==
    [][/\ Ordered(state.circles)
       /\ Ordered(state'.circles)
       /\ (PressTaken /\ last'.arg # 0) =>
              /\ last'.arg \in InWindowOf(last'.key)
              /\ \A i \in InWindowOf(last'.key) :
                     state.circles[last'.arg].yPos >= state.circles[i].yPos]_vars

\* the older of two circles of one lane, both inside the hit window, was hit
\* and the younger one is left
C21_Witness ==
    /\ last.kind = "KeyPress"
    /\ hitIds = {1}
    /\ Len(state.circles) = 1
    /\ state.circles[1].circle.id = 2
    /\ bornAt[1].at < bornAt[2].at
    /\ InHitRange(state.circles[1].yPos)
    /\ LaneOfCircle(state.circles[1]) = LaneOfKey(last.key)

(* C22. Whenever a key press is processed the SVG element of every circle    *)
(* of the state is a child of the canvas, because each state is rendered     *)
(* before the next event is applied; so the removeChild of a Hit always      *)
(* acts on a child of the canvas and does not throw, in every interleaving   *)
(* of note creations, Ticks and key presses.                                 *)
C22_AttachedBeforePress ==
    [][/\ Ids(state.circles) \subseteq canvas
       /\ Ids(state'.circles) \subseteq canvas'
       /\ (PressTaken /\ last'.arg # 0) =>
              /\ state.circles[last'.arg].circle.id \in canvas
              /\ state.circles[last'.arg].circle.id \notin canvas'
              /\ ~thrown']_vars

\* a Hit detached the element of the circle it resolved while another circle
\* stays attached
C22_Witness ==
    /\ last.kind = "KeyPress"
    /\ last.arg # 0
    /\ ~thrown
    /\ hitIds # {}
    /\ hitIds \cap canvas = {}
    /\ state.circles # <<>>
    /\ Ids(state.circles) \subseteq canvas

(* C23. After every render the circle elements attached to the canvas are    *)
(* exactly the elements of the circles of the state; the element of a        *)
(* circle that a Tick dropped past yPos 350 is no longer on the canvas.      *)
(* Violated: render only appends, and nothing removes the element of a       *)
(* circle that Tick.apply filtered out.                                      *)
C23_CanvasIsActive == canvas = Ids(state.circles)

C25_RngPerMiss ==
    [][/\ IF PressTaken /\ InWindowOf(last'.key) = {}
          THEN rngValue' = hash(rngValue) /\ rngCalls' = rngCalls + 1
          ELSE rngValue' = rngValue /\ rngCalls' = rngCalls
       /\ rngValue' = SequenceValue(rngCalls')]_vars

\* a Miss, a Hit and a second Miss: two values of the sequence were consumed
C25_Witness ==
    /\ last.kind = "KeyPress"
    /\ last.arg = 0
    /\ ~thrown
    /\ hitIds # {}
    /\ state.score = 9
    /\ rngCalls = 2
    /\ rngValue = hash(hash(RNG_SEED))

====
